---------------------------- MODULE Spec2Model ----------------------------
(***************************************************************************)
(* Model of the client-side format converter: the classifier and the       *)
(* compatibility table of src/main.js, the job list and its handlers       *)
(* (addFiles, updateFileFormat, updateAllFormats, removeFile,              *)
(* clearAllFiles, convertAllFiles), and the conversion router and          *)
(* pipelines of src/converter.js (convertFile and its branches).           *)
(*                                                                         *)
(* File names and MIME types are TLA+ strings; toLowerCase, endsWith and   *)
(* startsWith are computed on their characters.                            *)
(***************************************************************************)
EXTENDS Integers, Sequences, FiniteSets, TLC

(***************************************************************************)
(* Bounds of the model.                                                    *)
(***************************************************************************)
\* Number of job objects created over a run (ids 1..MaxJobs).
MaxJobs == 2
\* Number of files dropped or selected at once.
MaxDrop == 2
\* Largest number of frames (IFDs) UTIF.decode finds in a file.
MaxFrames == 1
\* Largest width and height, in pixels, of a decoded image.
MaxDim == 2

(***************************************************************************)
(* String helpers (JavaScript String.prototype methods).                   *)
(***************************************************************************)
UpperChars == "ABCDEFGHIJKLMNOPQRSTUVWXYZ"
LowerChars == "abcdefghijklmnopqrstuvwxyz"

CharAt(s, i) == SubSeq(s, i, i)

LowerChar(c) ==
  IF \E i \in 1..Len(UpperChars) : CharAt(UpperChars, i) = c
    THEN CharAt(LowerChars, CHOOSE i \in 1..Len(UpperChars) : CharAt(UpperChars, i) = c)
    ELSE c

RECURSIVE toLowerCase(_)
toLowerCase(s) ==
  IF Len(s) = 0 THEN ""
  ELSE LowerChar(CharAt(s, 1)) \o toLowerCase(SubSeq(s, 2, Len(s)))

endsWith(s, suffix) ==
  /\ Len(s) >= Len(suffix)
  /\ SubSeq(s, Len(s) - Len(suffix) + 1, Len(s)) = suffix

startsWith(s, prefix) ==
  /\ Len(s) >= Len(prefix)
  /\ SubSeq(s, 1, Len(prefix)) = prefix

(***************************************************************************)
(* MIME types.                                                             *)
(***************************************************************************)
DocxMime == "application/vnd.openxmlformats-officedocument.wordprocessingml.document"
XlsxMime == "application/vnd.openxmlformats-officedocument.spreadsheetml.sheet"

\* A Blob: its type and whether it holds any bytes; Null is the JavaScript null.
Null == [type |-> "null", size |-> 0]
Blob(t, n) == [type |-> t, size |-> n]

(***************************************************************************)
(* src/main.js: the conversion rules and the classifier.                   *)
(***************************************************************************)
Opt(v, l) == [value |-> v, label |-> l]

ConversionRulesInit ==
  [ image |-> << Opt("image/jpeg", "JPEG"), Opt("image/png", "PNG"),
                 Opt("image/webp", "WebP"), Opt("image/bmp", "BMP"),
                 Opt("image/gif", "GIF"), Opt("application/pdf", "PDF") >>,
    document |-> << Opt("application/pdf", "PDF"), Opt("text/html", "HTML") >>,
    spreadsheet |-> << Opt("application/pdf", "PDF"), Opt("text/csv", "CSV"),
                       Opt("text/html", "HTML") >>,
    text |-> << Opt("application/pdf", "PDF"), Opt(DocxMime, "DOCX (Basic)") >>,
    pdf |-> << Opt("text/plain", "Text (TXT)") >> ]

\* getFileCategory with the document rule tested before the image rule.
getFileCategory_DocumentFirst(file) ==
  LET name == toLowerCase(file.name)
      type == file.type
  IN  IF endsWith(name, ".docx") \/ endsWith(name, ".doc")
        THEN "document"
      ELSE IF startsWith(type, "image/") \/ endsWith(name, ".heic") \/ endsWith(name, ".heif")
         \/ endsWith(name, ".tiff") \/ endsWith(name, ".tif")
        THEN "image"
      ELSE IF endsWith(name, ".xlsx") \/ endsWith(name, ".xls") \/ endsWith(name, ".csv")
              \/ endsWith(name, ".ods")
        THEN "spreadsheet"
      ELSE IF startsWith(type, "text/") \/ endsWith(name, ".txt") \/ endsWith(name, ".html")
              \/ endsWith(name, ".rtf")
        THEN "text"
      ELSE IF type = "application/pdf" \/ endsWith(name, ".pdf")
        THEN "pdf"
      ELSE "null"

getFileCategory(file) ==
  LET name == toLowerCase(file.name)
      type == file.type
  IN  IF startsWith(type, "image/") \/ endsWith(name, ".heic") \/ endsWith(name, ".heif")
         \/ endsWith(name, ".tiff") \/ endsWith(name, ".tif")
        THEN "image"
      ELSE IF endsWith(name, ".docx") \/ endsWith(name, ".doc")
        THEN "document"
      ELSE IF endsWith(name, ".xlsx") \/ endsWith(name, ".xls") \/ endsWith(name, ".csv")
              \/ endsWith(name, ".ods")
        THEN "spreadsheet"
      ELSE IF startsWith(type, "text/") \/ endsWith(name, ".txt") \/ endsWith(name, ".html")
              \/ endsWith(name, ".rtf")
        THEN "text"
      ELSE IF type = "application/pdf" \/ endsWith(name, ".pdf")
        THEN "pdf"
      ELSE "null"

(***************************************************************************)
(* src/converter.js: the branch convertFile dispatches to.                 *)
(***************************************************************************)
\* convertFile testing the PDF target before the text and HEIC extensions.
convertFile_PdfTargetEarly(sourceFile, targetMimeType) ==
  LET name == toLowerCase(sourceFile.name)
  IN  IF endsWith(name, ".docx") THEN "convertDocx"
      ELSE IF endsWith(name, ".xlsx") \/ endsWith(name, ".xls") \/ endsWith(name, ".csv")
              \/ endsWith(name, ".ods")
        THEN "convertSpreadsheet"
      ELSE IF targetMimeType = "application/pdf"
        THEN "convertToPdf"
      ELSE IF endsWith(name, ".txt") \/ endsWith(name, ".html") \/ endsWith(name, ".rtf")
        THEN "convertTextHTML"
      ELSE IF endsWith(name, ".heic") \/ endsWith(name, ".heif")
        THEN "convertHeic"
      ELSE IF sourceFile.type = "image/tiff" \/ endsWith(name, ".tiff") \/ endsWith(name, ".tif")
        THEN "convertTiff"
      ELSE "convertImageToImage"

convertFile(sourceFile, targetMimeType) ==
  LET name == toLowerCase(sourceFile.name)
  IN  IF endsWith(name, ".docx") THEN "convertDocx"
      ELSE IF endsWith(name, ".xlsx") \/ endsWith(name, ".xls") \/ endsWith(name, ".csv")
              \/ endsWith(name, ".ods")
        THEN "convertSpreadsheet"
      ELSE IF endsWith(name, ".txt") \/ endsWith(name, ".html") \/ endsWith(name, ".rtf")
        THEN "convertTextHTML"
      ELSE IF endsWith(name, ".heic") \/ endsWith(name, ".heif")
        THEN "convertHeic"
      ELSE IF targetMimeType = "application/pdf"
        THEN "convertToPdf"
      ELSE IF sourceFile.type = "image/tiff" \/ endsWith(name, ".tiff") \/ endsWith(name, ".tif")
        THEN "convertTiff"
      ELSE "convertImageToImage"


(***************************************************************************)
(* The inputs.                                                             *)
(***************************************************************************)
File(n, t) == [name |-> n, type |-> t]

\* Files the user drops on the page.
DroppedFiles ==
  { File("a.png", "image/png"), File("a.tif", "image/tiff"), File("a.HEIC", ""),
    File("a.docx", DocxMime), File("a.csv", "text/csv"),
    File("a.txt", "text/plain"), File("a.html", "text/html"),
    File("a.pdf", "application/pdf"), File("a.xlt", "application/vnd.ms-excel"),
    File("a.zip", "application/zip") }

\* Arguments of a direct call of convertFile.
Names ==
  { "photo.HEIC", "shot.heif", "img.tif", "img.TIFF", "pic.png", "report.docx",
    "old.doc", "data.csv", "book.xlsx", "book.xls", "book.ods", "notes.txt",
    "page.html", "PAGE.HTML", "memo.rtf", "scan.pdf", "archive.zip", "noext" }
Types ==
  { "", "image/png", "image/tiff", "text/plain", "application/pdf",
    "application/octet-stream", "application/zip" }
Targets ==
  { "image/jpeg", "image/png", "image/webp", "image/bmp", "image/gif",
    "application/pdf", "text/html", "text/csv", "text/plain", DocxMime,
    "image/tiff" }

AllFiles == DroppedFiles \cup { File(n, t) : n \in Names, t \in Types }

\* getFileCategory and convertFile's dispatch, tabulated over the inputs (the
\* same values, computed once).
CategoryOf == [ f \in AllFiles |-> getFileCategory(f) ]
BranchOf == [ f \in AllFiles |-> [ t \in Targets \cup {""} |-> convertFile(f, t) ] ]

(***************************************************************************)
(* src/converter.js: one conversion call.  A call record holds the         *)
(* arguments of convertFile, the branch it dispatched to, the await the    *)
(* call is suspended at (pc), the value its promise resolved with, the     *)
(* error it rejected with, and the state of the temporary element some     *)
(* branches attach to document.body.                                       *)
(*   pc: "read"    awaiting file.arrayBuffer / file.text / FileReader      *)
(*       "decode"  awaiting mammoth / heic2any / loadImage                 *)
(*       "render"  inside doc.html, the callback not yet invoked           *)
(*       "renderFailed"  doc.html failed after it returned: the callback   *)
(*                 is never invoked and the promise has no reject path     *)
(*       "toBlob"  awaiting the canvas.toBlob callback                     *)
(*       "resolved" / "rejected"  the promise is settled                   *)
(***************************************************************************)
Settled == {"resolved", "rejected"}

\* Types canvas.toBlob is asked for by the rules; any other type yields PNG.
CanvasTypes == {"image/jpeg", "image/png", "image/webp", "image/bmp", "image/gif"}
CanvasBlob(t) == Blob(IF t \in CanvasTypes THEN t ELSE "image/png", 1)

\* Types heic2any emits (converter.js line 211); PNG is its default.
HeicTypes == {"image/jpeg", "image/png", "image/gif"}
HeicBlob(t) == Blob(IF t \in HeicTypes THEN t ELSE "image/png", 1)

\* ifds: the number of frames UTIF.decode returned (NotDecoded: it did not run).
NotDecoded == -1

\* canvas: the canvas toBlob encodes: "none", "raw" (the decoded pixels drawn
\* on a transparent canvas) or "white" (drawn over a '#FFFFFF' fillRect).
Canvas(target) ==
  IF target = "image/jpeg" \/ target = "image/bmp" THEN "white" ELSE "raw"

\* page: what the call put into its jsPDF document.
NoPage == [kind |-> "none"]
\* doc.html(tempDiv, {x, y, width, windowWidth})
MarkupPage(w) ==
  [kind |-> "markup", x |-> 10, y |-> 10, width |-> 190, windowWidth |-> w]
\* doc.text(text, 10, 10, {maxWidth: 190})
TextPage == [kind |-> "text", x |-> 10, y |-> 10, maxWidth |-> 190]
\* The page of a square image laid out in landscape.
ImagePage_SquareLandscape(w, h) ==
  [kind |-> "image", orientation |-> IF w >= h THEN "l" ELSE "p", unit |-> "px",
   format |-> << w, h >>, image |-> << 0, 0, w, h >>, width |-> w, height |-> h]

\* new jsPDF({orientation, unit: 'px', format: [w, h]}); addImage(.., 0, 0, w, h)
ImagePage(w, h) ==
  [kind |-> "image", orientation |-> IF w > h THEN "l" ELSE "p", unit |-> "px",
   format |-> << w, h >>, image |-> << 0, 0, w, h >>, width |-> w, height |-> h]

NewCall(file, target) ==
  LET b == BranchOf[file][target]
  IN  [ file |-> file, target |-> target, branch |-> b,
        pc |-> IF b = "convertHeic" THEN "decode" ELSE "read",
        result |-> Null, err |-> "", tempDiv |-> "none",
        ifds |-> NotDecoded, canvas |-> "none", page |-> NoPage ]

Resolve(c, blob) == [c EXCEPT !.pc = "resolved", !.result = blob]
Reject(c, e) == [c EXCEPT !.pc = "rejected", !.err = e]

\* new Promise((resolve) => { tempDiv attached; doc.html(tempDiv, {callback}) }):
\* doc.html either returns (rendering goes on) or throws inside the executor,
\* which rejects the promise with the element still attached.
RenderStart(c, windowWidth) ==
  LET a == [c EXCEPT !.tempDiv = "attached", !.page = MarkupPage(windowWidth)]
  IN  { [a EXCEPT !.pc = "render"], Reject(a, "library") }

\* The callback of doc.html: tempDiv.remove(); resolve(doc.output('blob')).
\* Or the rendering fails and the callback is never invoked.
RenderEnd(c) ==
  { Resolve([c EXCEPT !.tempDiv = "removed"], Blob("application/pdf", 1)),
    [c EXCEPT !.pc = "renderFailed"] }

\* convertDocx returning the HTML for every target other than PDF.
convertDocx_HtmlByDefault(c) ==
  CASE c.pc = "read" -> { [c EXCEPT !.pc = "decode"], Reject(c, "library") }
    [] c.pc = "decode" ->
         { Reject(c, "library") } \cup
         ( IF c.target = "application/pdf"
             THEN RenderStart(c, 650)
             ELSE { Resolve(c, Blob("text/html", n)) : n \in {0, 1} } )
    [] c.pc = "render" -> RenderEnd(c)
    [] OTHER -> {}

convertDocx(c) ==
  CASE c.pc = "read" -> { [c EXCEPT !.pc = "decode"], Reject(c, "library") }
    [] c.pc = "decode" ->
         { Reject(c, "library") } \cup
         ( IF c.target = "text/html"
             THEN { Resolve(c, Blob("text/html", n)) : n \in {0, 1} }
           ELSE IF c.target = "application/pdf"
             THEN RenderStart(c, 650)
           ELSE { Reject(c, "Unsupported target for DOCX") } )
    [] c.pc = "render" -> RenderEnd(c)
    [] OTHER -> {}

convertSpreadsheet(c) ==
  CASE c.pc = "read" ->
         { Reject(c, "library") } \cup
         ( IF c.target = "text/csv" \/ c.target = "text/plain"
             THEN { Resolve(c, Blob("text/csv", n)) : n \in {0, 1} }
           ELSE IF c.target = "application/pdf" \/ c.target = "text/html"
             THEN IF c.target = "text/html"
                    THEN { Resolve(c, Blob("text/html", 1)) }
                    ELSE RenderStart(c, 800)
           ELSE { Reject(c, "Unsupported target for Spreadsheet") } )
    [] c.pc = "render" -> RenderEnd(c)
    [] OTHER -> {}

convertTextHTML(c) ==
  CASE c.pc = "read" ->
         { Reject(c, "library") } \cup
         ( IF c.target = "application/pdf"
             THEN IF endsWith(c.file.name, ".html")
                    THEN RenderStart(c, 800)
                    ELSE { Resolve([c EXCEPT !.page = TextPage], Blob("application/pdf", 1)) }
           ELSE { Reject(c, "Unsupported target for Text/HTML") } )
    [] c.pc = "render" -> RenderEnd(c)
    [] OTHER -> {}

\* convertTiff creating its canvas before it tests the frame list.
convertTiff_CanvasFirst(c) ==
  CASE c.pc = "read" ->
         { Reject(c, "library"),
           Reject([c EXCEPT !.ifds = 0, !.canvas = Canvas(c.target)], "Invalid TIFF file") } \cup
         { Reject([c EXCEPT !.ifds = n], "library") : n \in 1..MaxFrames } \cup
         { [c EXCEPT !.ifds = n, !.canvas = Canvas(c.target), !.pc = "toBlob"] :
             n \in 1..MaxFrames }
    [] c.pc = "toBlob" -> { Resolve(c, CanvasBlob(c.target)), Resolve(c, Null) }
    [] OTHER -> {}

convertTiff(c) ==
  CASE c.pc = "read" ->
         { Reject(c, "library"), Reject([c EXCEPT !.ifds = 0], "Invalid TIFF file") } \cup
         { Reject([c EXCEPT !.ifds = n], "library") : n \in 1..MaxFrames } \cup
         { [c EXCEPT !.ifds = n, !.canvas = Canvas(c.target), !.pc = "toBlob"] :
             n \in 1..MaxFrames }
    [] c.pc = "toBlob" -> { Resolve(c, CanvasBlob(c.target)), Resolve(c, Null) }
    [] OTHER -> {}

convertHeic(c) ==
  CASE c.pc = "decode" -> { Resolve(c, HeicBlob(c.target)), Reject(c, "library") }
    [] OTHER -> {}

convertToPdf(c) ==
  CASE c.pc = "read" -> { [c EXCEPT !.pc = "decode"], Reject(c, "library") }
    [] c.pc = "decode" ->
         { Reject(c, "library") } \cup
         { Resolve([c EXCEPT !.page = ImagePage(w, h)], Blob("application/pdf", 1)) :
             w \in 1..MaxDim, h \in 1..MaxDim }
    [] OTHER -> {}

convertImageToImage(c) ==
  CASE c.pc = "read" -> { [c EXCEPT !.pc = "decode"], Reject(c, "library") }
    [] c.pc = "decode" ->
         { [c EXCEPT !.canvas = Canvas(c.target), !.pc = "toBlob"], Reject(c, "library") }
    [] c.pc = "toBlob" ->
         { Resolve(c, CanvasBlob(c.target)), Reject(c, "Canvas toBlob failed") }
    [] OTHER -> {}


(***************************************************************************)
(* State.                                                                  *)
(***************************************************************************)
VARIABLES
  CONVERSION_RULES,    \* main.js: the rules object
  objs,                \* the job objects ever created, by id: {file, targetFormat, status, resultBlob}
  files,               \* main.js `files`: the ids of the listed jobs, in order
  conv,                \* the conversion calls, by job id (id 0: a direct call)
  invocations,         \* how many times convertFile was invoked for each job
  batches,             \* the job sets of the convertAllFiles calls awaiting Promise.all
  rendered,            \* the widget renderFileList last drew for each listed job
  convertBtnDisabled,  \* convertAllBtn.disabled
  globalOptions,       \* the values offered by globalFormatSelect besides its placeholder ''
  classified           \* a direct call of getFileCategory / getCompatibleFormats: its argument and results

vars == << CONVERSION_RULES, objs, files, conv, invocations, batches, rendered,
           convertBtnDisabled, globalOptions, classified >>

Range(seq) == { seq[i] : i \in 1..Len(seq) }
JobIds == 1..Len(objs)

\* The temporary elements attached to document.body.
documentBody == { k \in DOMAIN conv : conv[k].tempDiv = "attached" }

(***************************************************************************)
(* src/main.js: helpers of the handlers.                                   *)
(***************************************************************************)
\* getCompatibleFormats falling back to the image formats instead of [].
getCompatibleFormats_ImageFallback(file) ==
  LET category == CategoryOf[file]
  IN  IF category \in DOMAIN CONVERSION_RULES THEN CONVERSION_RULES[category]
      ELSE CONVERSION_RULES.image

getCompatibleFormats(file) ==
  LET category == CategoryOf[file]
  IN  IF category \in DOMAIN CONVERSION_RULES THEN CONVERSION_RULES[category] ELSE << >>

CompatibleValues(file) ==
  { getCompatibleFormats(file)[i].value : i \in 1..Len(getCompatibleFormats(file)) }

\* '.' + file.name.split('.').pop().toLowerCase()
RECURSIVE LastSegment(_)
LastSegment(name) ==
  IF \E i \in 1..Len(name) : CharAt(name, i) = "."
    THEN LastSegment(SubSeq(name, (CHOOSE i \in 1..Len(name) : CharAt(name, i) = ".") + 1, Len(name)))
    ELSE name

supportedTypes ==
  { "image/jpeg", "image/png", "image/gif", "image/webp", "image/bmp", "image/tiff",
    "image/svg+xml", "application/pdf", DocxMime, XlsxMime, "application/vnd.ms-excel",
    "text/csv", "text/plain", "text/html" }

supportedExtensions ==
  { ".heic", ".heif", ".tiff", ".tif", ".docx", ".xlsx", ".xls", ".csv", ".txt", ".html" }

IsValidFile(file) ==
  LET ext == "." \o toLowerCase(LastSegment(file.name))
  IN  \/ file.type \in supportedTypes
      \/ ext \in supportedExtensions
      \/ startsWith(file.type, "image/")

\* The intake test, tabulated over the files that can be dropped.
ValidFile == [ f \in DroppedFiles |-> IsValidFile(f) ]

NewJob(file) ==
  LET compatible == getCompatibleFormats(file)
  IN  [ file |-> file,
        targetFormat |-> IF Len(compatible) > 0 THEN compatible[1].value ELSE "",
        status |-> "pending",
        resultBlob |-> Null ]

\* The action area renderFileList draws for a job.
Widget(job) ==
  IF job.status = "done" THEN "download"
  ELSE IF job.status = "error" THEN "error"
  ELSE IF job.status = "converting" THEN "running"
  ELSE "select"

renderFileList(fs, os) == [ id \in Range(fs) |-> Widget(os[id]) ]

updateUIState(fs, os) ==
  LET canConvert == \E id \in Range(fs) : os[id].status = "pending" /\ os[id].targetFormat # ""
      convertingCount == Cardinality({ id \in Range(fs) : os[id].status = "converting" })
  IN  IF convertingCount > 0 THEN TRUE ELSE ~canConvert

\* The option values of globalFormatSelect after updateGlobalFormatOptions.
\* With no listed or no pending job the select is reset to its placeholder.
\* Otherwise line 190 hands the job object, not its file, to
\* getCompatibleFormats: getFileCategory evaluates `file.name.toLowerCase()`
\* on an undefined name and throws a TypeError before the select is rebuilt
\* (lines 193-223 never run), so the select keeps the options it had.
updateGlobalFormatOptions(fs, os) ==
  LET pendingFiles == { id \in Range(fs) : os[id].status = "pending" }
  IN  IF Len(fs) = 0 \/ pendingFiles = {} THEN {}
      ELSE globalOptions

\* The filter of convertAllFiles also taking the failed jobs (a retry).
PendingJobs_RetryFailed(fs, os) ==
  { id \in Range(fs) : os[id].status \in {"pending", "error"} /\ os[id].targetFormat # "" }

\* convertAllFiles line 341: the jobs it submits.
PendingJobs(fs, os) ==
  { id \in Range(fs) : os[id].status = "pending" /\ os[id].targetFormat # "" }

\* The continuation putting a failed job back to 'pending'.
JobContinuation_BackToPending(job, c) ==
  IF c.pc = "resolved"
    THEN [job EXCEPT !.resultBlob = c.result, !.status = "done"]
    ELSE [job EXCEPT !.status = "pending"]

\* convertAllFiles lines 350-357: the continuation of `await convertFile(...)`.
JobContinuation(job, c) ==
  IF c.pc = "resolved"
    THEN [job EXCEPT !.resultBlob = c.result, !.status = "done"]
    ELSE [job EXCEPT !.status = "error"]


\* downloadFile lines 368-380: the extension by target type.
extMap ==
  [ t \in { "image/jpeg", "image/png", "image/webp", "image/bmp", "image/gif",
            "application/pdf", "text/html", "text/csv", "text/plain", DocxMime, XlsxMime } |->
      CASE t = "image/jpeg" -> "jpg"
        [] t = "image/png" -> "png"
        [] t = "image/webp" -> "webp"
        [] t = "image/bmp" -> "bmp"
        [] t = "image/gif" -> "gif"
        [] t = "application/pdf" -> "pdf"
        [] t = "text/html" -> "html"
        [] t = "text/csv" -> "csv"
        [] t = "text/plain" -> "txt"
        [] t = DocxMime -> "docx"
        [] t = XlsxMime -> "xlsx" ]

\* extMap[target] || 'bin'
Extension(target) == IF target \in DOMAIN extMap THEN extMap[target] ELSE "bin"

\* downloadFile: the extension of the name it saves the result under ("none":
\* nothing is saved, the job has no result).
downloadFile(fileObj) ==
  IF fileObj.resultBlob # Null THEN Extension(fileObj.targetFormat) ELSE "none"

(***************************************************************************)
(* Initial states.                                                         *)
(***************************************************************************)
NoCalls == [ k \in {} |-> Null ]

\* The options of the element main.js line 9 looks up, as the page's markup
\* gives them: none besides the placeholder, or a static list of formats.  A
\* list of every target stands for any list, since a change event carries one
\* value of it.
MarkupOptions == { {}, Targets }
NoCall == [ file |-> File("", ""), category |-> "unset", formats |-> << >> ]

Init ==
  /\ CONVERSION_RULES = ConversionRulesInit
  /\ objs = << >>
  /\ files = << >>
  /\ conv = NoCalls
  /\ invocations = << >>
  /\ batches = {}
  /\ rendered = [ id \in {} |-> "select" ]
  /\ convertBtnDisabled = FALSE
  /\ globalOptions \in MarkupOptions
  /\ classified = NoCall

\* A direct call convertFile(file, target) with no job: call 0.
InitConvert ==
  /\ CONVERSION_RULES = ConversionRulesInit
  /\ objs = << >>
  /\ files = << >>
  /\ \E n \in Names, t \in Types, target \in Targets :
       conv = [ k \in {0} |-> NewCall(File(n, t), target) ]
  /\ invocations = << >>
  /\ batches = {}
  /\ rendered = [ id \in {} |-> "select" ]
  /\ convertBtnDisabled = FALSE
  /\ globalOptions = {}
  /\ classified = NoCall

(***************************************************************************)
(* src/main.js: the handlers.                                              *)
(***************************************************************************)
RECURSIVE Filter(_)
\* validFiles of addFiles: the files that pass the intake test, in order.
Filter(fs) ==
  IF Len(fs) = 0 THEN << >>
  ELSE (IF ValidFile[Head(fs)] THEN << Head(fs) >> ELSE << >>) \o Filter(Tail(fs))

addFiles(newFiles) ==
  LET validFiles == Filter(newFiles)
      n == Len(objs)
      objs2 == objs \o [ i \in 1..Len(validFiles) |-> NewJob(validFiles[i]) ]
      files2 == files \o [ i \in 1..Len(validFiles) |-> n + i ]
  IN  /\ n + Len(validFiles) <= MaxJobs
      /\ IF Len(newFiles) = 0 \/ Len(validFiles) = 0
           THEN UNCHANGED vars
           ELSE /\ objs' = objs2
                /\ files' = files2
                /\ invocations' = invocations \o [ i \in 1..Len(validFiles) |-> 0 ]
                /\ rendered' = renderFileList(files2, objs2)
                /\ convertBtnDisabled' = updateUIState(files2, objs2)
                /\ globalOptions' = updateGlobalFormatOptions(files2, objs2)
                /\ UNCHANGED << classified, CONVERSION_RULES, conv, batches >>

removeFile(id) ==
  LET files2 == SelectSeq(files, LAMBDA f : f # id)
  IN  /\ files' = files2
      /\ rendered' = renderFileList(files2, objs)
      /\ convertBtnDisabled' = updateUIState(files2, objs)
      /\ globalOptions' = updateGlobalFormatOptions(files2, objs)
      /\ UNCHANGED << classified, CONVERSION_RULES, objs, conv, invocations, batches >>

updateFileFormat(id, format) ==
  IF id \in Range(files)
    THEN LET objs2 == [objs EXCEPT ![id].targetFormat = format]
         IN  /\ objs' = objs2
             /\ convertBtnDisabled' = updateUIState(files, objs2)
             /\ UNCHANGED << classified, CONVERSION_RULES, files, conv, invocations, batches,
                             rendered, globalOptions >>
    ELSE UNCHANGED vars

\* updateAllFormats giving the format to every pending job, supported or not.
updateAllFormats_NoSupportCheck(format) ==
  IF format = "" THEN UNCHANGED vars
  ELSE LET objs2 == [ id \in JobIds |->
                       IF /\ id \in Range(files)
                          /\ objs[id].status = "pending"
                         THEN [objs[id] EXCEPT !.targetFormat = format]
                         ELSE objs[id] ]
       IN  /\ objs' = objs2
           /\ rendered' = renderFileList(files, objs2)
           /\ convertBtnDisabled' = updateUIState(files, objs2)
           /\ UNCHANGED << classified, CONVERSION_RULES, files, conv, invocations, batches,
                           globalOptions >>

\* updateAllFormats writing the format to the supporting jobs of every status.
updateAllFormats_AnyStatus(format) ==
  IF format = "" THEN UNCHANGED vars
  ELSE LET objs2 == [ id \in JobIds |->
                       IF /\ id \in Range(files)
                          /\ format \in CompatibleValues(objs[id].file)
                         THEN [objs[id] EXCEPT !.targetFormat = format]
                         ELSE objs[id] ]
       IN  /\ objs' = objs2
           /\ rendered' = renderFileList(files, objs2)
           /\ convertBtnDisabled' = updateUIState(files, objs2)
           /\ UNCHANGED << classified, CONVERSION_RULES, files, conv, invocations, batches,
                           globalOptions >>

updateAllFormats(format) ==
  IF format = "" THEN UNCHANGED vars
  ELSE LET objs2 == [ id \in JobIds |->
                       IF /\ id \in Range(files)
                          /\ objs[id].status = "pending"
                          /\ format \in CompatibleValues(objs[id].file)
                         THEN [objs[id] EXCEPT !.targetFormat = format]
                         ELSE objs[id] ]
       IN  /\ objs' = objs2
           /\ rendered' = renderFileList(files, objs2)
           /\ convertBtnDisabled' = updateUIState(files, objs2)
           /\ UNCHANGED << classified, CONVERSION_RULES, files, conv, invocations, batches,
                           globalOptions >>

clearAllFiles ==
  /\ files' = << >>
  /\ rendered' = renderFileList(<< >>, objs)
  /\ convertBtnDisabled' = updateUIState(<< >>, objs)
  /\ globalOptions' = updateGlobalFormatOptions(<< >>, objs)
  /\ UNCHANGED << classified, CONVERSION_RULES, objs, conv, invocations, batches >>

\* convertAllFiles up to its await: the jobs go to 'converting', the list is
\* drawn, and convertFile is invoked for each job (each call runs to its first await).
convertAllFiles ==
  LET jobs == PendingJobs(files, objs)
      objs2 == [ id \in JobIds |->
                  IF id \in jobs THEN [objs[id] EXCEPT !.status = "converting"] ELSE objs[id] ]
  IN  IF jobs = {} THEN UNCHANGED vars
      ELSE /\ objs' = objs2
           /\ rendered' = renderFileList(files, objs2)
           /\ convertBtnDisabled' = updateUIState(files, objs2)
           /\ conv' = [ k \in DOMAIN conv \cup jobs |->
                         IF k \in jobs THEN NewCall(objs[k].file, objs[k].targetFormat)
                                       ELSE conv[k] ]
           /\ invocations' = [ id \in JobIds |->
                                IF id \in jobs THEN invocations[id] + 1 ELSE invocations[id] ]
           /\ batches' = batches \cup { jobs }
           /\ UNCHANGED << classified, CONVERSION_RULES, files, globalOptions >>

(***************************************************************************)
(* One step of a conversion call: the call moves to c2.  When the promise  *)
(* settles, the continuation in convertAllFiles runs in the same turn, and *)
(* so does the end of convertAllFiles once every call of its Promise.all   *)
(* has settled.                                                            *)
(***************************************************************************)
\* Advance with a failure of one call failing every job of its batch.
Advance_FailBatch(k, c2) ==
  LET conv2 == [conv EXCEPT ![k] = c2]
      mates == UNION { B \in batches : k \in B }
      objs2 == IF k \in JobIds /\ c2.pc \in Settled
                 THEN [ id \in JobIds |->
                         IF id = k THEN JobContinuation(objs[id], c2)
                         ELSE IF id \in mates /\ c2.pc = "rejected"
                           THEN [objs[id] EXCEPT !.status = "error"]
                         ELSE objs[id] ]
                 ELSE objs
      finished == { B \in batches : k \in B /\ \A j \in B : conv2[j].pc \in Settled }
  IN  /\ conv' = conv2
      /\ objs' = objs2
      /\ batches' = batches \ finished
      /\ IF finished # {}
           THEN /\ rendered' = renderFileList(files, objs2)
                /\ convertBtnDisabled' = updateUIState(files, objs2)
           ELSE UNCHANGED << rendered, convertBtnDisabled >>
      /\ UNCHANGED << classified, CONVERSION_RULES, files, invocations, globalOptions >>

Advance(k, c2) ==
  LET conv2 == [conv EXCEPT ![k] = c2]
      objs2 == IF k \in JobIds /\ c2.pc \in Settled
                 THEN [objs EXCEPT ![k] = JobContinuation(@, c2)]
                 ELSE objs
      finished == { B \in batches : k \in B /\ \A j \in B : conv2[j].pc \in Settled }
  IN  /\ conv' = conv2
      /\ objs' = objs2
      /\ batches' = batches \ finished
      /\ IF finished # {}
           THEN /\ rendered' = renderFileList(files, objs2)
                /\ convertBtnDisabled' = updateUIState(files, objs2)
           ELSE UNCHANGED << rendered, convertBtnDisabled >>
      /\ UNCHANGED << classified, CONVERSION_RULES, files, invocations, globalOptions >>

StepDocx(k) ==
  /\ conv[k].branch = "convertDocx"
  /\ \E c2 \in convertDocx(conv[k]) : Advance(k, c2)

StepSpreadsheet(k) ==
  /\ conv[k].branch = "convertSpreadsheet"
  /\ \E c2 \in convertSpreadsheet(conv[k]) : Advance(k, c2)

StepTextHTML(k) ==
  /\ conv[k].branch = "convertTextHTML"
  /\ \E c2 \in convertTextHTML(conv[k]) : Advance(k, c2)

StepTiff(k) ==
  /\ conv[k].branch = "convertTiff"
  /\ \E c2 \in convertTiff(conv[k]) : Advance(k, c2)

StepHeic(k) ==
  /\ conv[k].branch = "convertHeic"
  /\ \E c2 \in convertHeic(conv[k]) : Advance(k, c2)

StepToPdf(k) ==
  /\ conv[k].branch = "convertToPdf"
  /\ \E c2 \in convertToPdf(conv[k]) : Advance(k, c2)

StepImageToImage(k) ==
  /\ conv[k].branch = "convertImageToImage"
  /\ \E c2 \in convertImageToImage(conv[k]) : Advance(k, c2)

(***************************************************************************)
(* The user's events and the specifications.                               *)
(***************************************************************************)
Drops == UNION { [1..n -> DroppedFiles] : n \in 1..MaxDrop }

AddFiles == \E newFiles \in Drops : addFiles(newFiles)

RemoveFile == \E id \in DOMAIN rendered : removeFile(id)

\* The per-file selector exists for the jobs drawn as pending; it offers the
\* compatible formats of the file.
UpdateFileFormat ==
  \E id \in DOMAIN rendered :
    /\ rendered[id] = "select"
    /\ \E format \in CompatibleValues(objs[id].file) : updateFileFormat(id, format)

\* A change event of globalFormatSelect: its value is the placeholder's ''
\* or one of the options it holds.
UpdateAllFormats == \E format \in globalOptions \cup {""} : updateAllFormats(format)

ClearAllFiles == clearAllFiles

ConvertAllFiles == ~convertBtnDisabled /\ convertAllFiles

DocxStep == \E k \in DOMAIN conv : StepDocx(k)
SpreadsheetStep == \E k \in DOMAIN conv : StepSpreadsheet(k)
TextHTMLStep == \E k \in DOMAIN conv : StepTextHTML(k)
TiffStep == \E k \in DOMAIN conv : StepTiff(k)
HeicStep == \E k \in DOMAIN conv : StepHeic(k)
ToPdfStep == \E k \in DOMAIN conv : StepToPdf(k)
ImageToImageStep == \E k \in DOMAIN conv : StepImageToImage(k)

\* Any step of call k.
CallStep(k) ==
  /\ k \in DOMAIN conv
  /\ \/ StepDocx(k)
     \/ StepSpreadsheet(k)
     \/ StepTextHTML(k)
     \/ StepTiff(k)
     \/ StepHeic(k)
     \/ StepToPdf(k)
     \/ StepImageToImage(k)

Next ==
  \/ AddFiles
  \/ RemoveFile
  \/ UpdateFileFormat
  \/ UpdateAllFormats
  \/ ClearAllFiles
  \/ ConvertAllFiles
  \/ DocxStep
  \/ SpreadsheetStep
  \/ TextHTMLStep
  \/ TiffStep
  \/ HeicStep
  \/ ToPdfStep
  \/ ImageToImageStep

Spec == Init /\ [][Next]_vars

\* The library step a call is waiting for ends: it finishes or it fails.
FairSpec == Spec /\ \A k \in 1..MaxJobs : WF_vars(CallStep(k))

\* A direct call of convertFile.
NextConvert ==
  \/ DocxStep
  \/ SpreadsheetStep
  \/ TextHTMLStep
  \/ TiffStep
  \/ HeicStep
  \/ ToPdfStep
  \/ ImageToImageStep

SpecConvert == InitConvert /\ [][NextConvert]_vars

\* A direct call of getFileCategory and getCompatibleFormats.
InitClassify ==
  /\ CONVERSION_RULES = ConversionRulesInit
  /\ objs = << >>
  /\ files = << >>
  /\ conv = NoCalls
  /\ invocations = << >>
  /\ batches = {}
  /\ rendered = [ id \in {} |-> "select" ]
  /\ convertBtnDisabled = FALSE
  /\ globalOptions = {}
  /\ \E n \in Names, t \in Types : classified = [NoCall EXCEPT !.file = File(n, t)]

Classify ==
  /\ classified.category = "unset"
  /\ classified' = [classified EXCEPT !.category = getFileCategory(classified.file),
                                      !.formats = getCompatibleFormats(classified.file)]
  /\ UNCHANGED << CONVERSION_RULES, objs, files, conv, invocations, batches, rendered,
                  convertBtnDisabled, globalOptions >>

NextClassify == Classify

SpecClassify == InitClassify /\ [][NextClassify]_vars


(***************************************************************************)
(* Properties.                                                             *)
(***************************************************************************)
Values(formats) == [ i \in 1..Len(formats) |-> formats[i].value ]

\* The Compatibility Table of the specification (section 4.2), by MIME type.
CompatibilityTable ==
  [ image |-> << "image/jpeg", "image/png", "image/webp", "image/bmp", "image/gif",
                 "application/pdf" >>,
    document |-> << "application/pdf", "text/html" >>,
    spreadsheet |-> << "application/pdf", "text/csv", "text/html" >>,
    text |-> << "application/pdf", DocxMime >>,
    pdf |-> << "text/plain" >> ]

InTable(file, target) ==
  /\ CategoryOf[file] \in DOMAIN CompatibilityTable
  /\ target \in Range(CompatibilityTable[CategoryOf[file]])

\* A decoder or an encoder failed during the call.
LibraryFailed(c) ==
  \/ c.err \in {"library", "Invalid TIFF file", "Canvas toBlob failed"}
  \/ c.pc = "renderFailed"
  \/ c.pc = "resolved" /\ c.result = Null

\* C1: a call of convertFile whose (category, target) pair is not in the
\* Compatibility Table never resolves: it produces no bytes.
C1_UnlistedPairRejected ==
  \A k \in DOMAIN conv :
    ~InTable(conv[k].file, conv[k].target) =>
       conv[k].pc # "resolved" /\ conv[k].result = Null

\* C2: a settled call of convertFile whose (category, target) pair is in the
\* Compatibility Table, and in which no decoder or encoder failed, has resolved
\* with non-empty bytes of the requested target type.
C2_ListedPairSucceeds ==
  \A k \in DOMAIN conv :
    ( /\ InTable(conv[k].file, conv[k].target)
      /\ conv[k].pc \in Settled
      /\ ~LibraryFailed(conv[k]) )
    => ( /\ conv[k].pc = "resolved"
         /\ conv[k].result.size > 0
         /\ conv[k].result.type = conv[k].target )

\* The classifier's rules of the specification (section 4.1), in decision order.
ClassifierRules ==
  << [ category |-> "image", prefix |-> "image/", equal |-> "-",
       exts |-> {".heic", ".heif", ".tiff", ".tif"} ],
     [ category |-> "document", prefix |-> "-", equal |-> "-",
       exts |-> {".docx", ".doc"} ],
     [ category |-> "spreadsheet", prefix |-> "-", equal |-> "-",
       exts |-> {".xlsx", ".xls", ".csv", ".ods"} ],
     [ category |-> "text", prefix |-> "text/", equal |-> "-",
       exts |-> {".txt", ".html", ".rtf"} ],
     [ category |-> "pdf", prefix |-> "-", equal |-> "application/pdf",
       exts |-> {".pdf"} ] >>

RuleMatches(r, file) ==
  \/ startsWith(file.type, r.prefix)
  \/ file.type = r.equal
  \/ \E e \in r.exts : endsWith(toLowerCase(file.name), e)

FirstMatch(file) ==
  IF \E i \in 1..Len(ClassifierRules) : RuleMatches(ClassifierRules[i], file)
    THEN ClassifierRules[CHOOSE i \in 1..Len(ClassifierRules) :
                           /\ RuleMatches(ClassifierRules[i], file)
                           /\ \A j \in 1..(i - 1) : ~RuleMatches(ClassifierRules[j], file)].category
    ELSE "null"

ClassifierExamples ==
  { << "photo.HEIC", "", "image" >>,
    << "report.docx", "application/octet-stream", "document" >>,
    << "data.csv", "", "spreadsheet" >>,
    << "notes.txt", "", "text" >>,
    << "scan.pdf", "", "pdf" >>,
    << "archive.zip", "application/zip", "null" >>,
    << "report.docx", "image/png", "image" >>,
    << "data.csv", "image/png", "image" >>,
    << "notes.txt", "image/png", "image" >> }

\* C3: getFileCategory returns the category of the first matching rule in the
\* order image, document, spreadsheet, text, pdf, and none when no rule
\* matches; the examples of the specification classify as stated.
C3_ClassifierFirstMatch ==
  classified.category # "unset" =>
    /\ classified.category = FirstMatch(classified.file)
    /\ \A e \in ClassifierExamples :
         classified.file = File(e[1], e[2]) => classified.category = e[3]

C3_Witness ==
  /\ classified.file = File("report.docx", "image/png")
  /\ classified.category = "image"

\* C4: getCompatibleFormats returns the formats of the Compatibility Table in
\* its order, and the empty sequence for a file with no category, in every
\* state the handlers reach.
C4_CompatibleFormatsFixed ==
  \A f \in DroppedFiles :
    Values(getCompatibleFormats(f)) =
      IF CategoryOf[f] \in DOMAIN CompatibilityTable
        THEN CompatibilityTable[CategoryOf[f]] ELSE << >>

C4_Witness ==
  /\ Len(objs) = MaxJobs
  /\ files = << >>
  /\ \E id \in JobIds : objs[id].status = "done" /\ CategoryOf[objs[id].file] = "text"
  /\ \E id \in JobIds : objs[id].status = "error"

\* C5: a job with status 'done' holds a non-null, non-empty result.
C5_DoneHasResult ==
  \A id \in JobIds :
    objs[id].status = "done" => objs[id].resultBlob # Null /\ objs[id].resultBlob.size > 0

StatusMoves ==
  { << "pending", "converting" >>, << "converting", "done" >>, << "converting", "error" >> }

\* C6: a job is created as pending and its status only moves
\* pending -> converting -> (done | error); done and error never change.
C6_StatusLifecycle ==
  [][ /\ Len(objs') >= Len(objs)
      /\ \A id \in 1..Len(objs') :
           IF id \in JobIds
             THEN \/ objs'[id].status = objs[id].status
                  \/ << objs[id].status, objs'[id].status >> \in StatusMoves
             ELSE objs'[id].status = "pending" ]_vars

C6_Witness ==
  /\ Len(objs) = MaxJobs
  /\ objs[1].status = "done"
  /\ objs[2].status = "error"

\* C7: every job that enters 'converting' eventually reaches 'done' or 'error'.
JobStatus(id) == IF id \in JobIds THEN objs[id].status ELSE "none"

C7_ConvertingEnds ==
  \A id \in 1..MaxJobs :
    (JobStatus(id) = "converting") ~> (JobStatus(id) \in {"done", "error"})

\* C8: a temporary element is no longer attached once its conversion has
\* finished, and none is attached when no conversion is in flight.
C8_TempElementRemoved ==
  /\ \A k \in DOMAIN conv : conv[k].pc \in Settled => k \notin documentBody
  /\ (\A k \in DOMAIN conv : conv[k].pc \in Settled) => documentBody = {}

RasterBranches == {"convertToPdf", "convertTiff", "convertImageToImage"}

\* C9: only files the classifier categorises as image are passed to the
\* raster-image decode paths (image-to-PDF, TIFF, generic image-to-image).
C9_RasterPathsOnlyForImages ==
  \A k \in DOMAIN conv :
    (conv[k].branch \in RasterBranches /\ conv[k].pc # "read")
      => CategoryOf[conv[k].file] = "image"

\* C10: convertFile is invoked at most once per job, only for a pending job
\* with a non-empty target, and a failed job is in 'error' with a null result.
C10_NoRetry ==
  /\ [](\A id \in JobIds :
          /\ invocations[id] <= 1
          /\ objs[id].status = "pending" <=> invocations[id] = 0
          /\ objs[id].status = "error" => objs[id].resultBlob = Null)
  /\ [][\A id \in JobIds :
          invocations'[id] # invocations[id] =>
             /\ objs[id].status = "pending"
             /\ objs[id].targetFormat # ""
             /\ invocations'[id] = 1]_vars

C10_Witness ==
  /\ Len(objs) = MaxJobs
  /\ objs[1].status = "error"
  /\ conv[1].pc = "rejected"
  /\ invocations[1] = 1
  /\ objs[2].status = "converting"

Categories == {"image", "document", "spreadsheet", "text", "pdf"}

\* C11: every job in the list has a category: a file the classifier gives no
\* category is rejected by addFiles and never becomes a job.
C11_EveryJobHasCategory ==
  \A id \in JobIds : CategoryOf[objs[id].file] \in Categories

\* C12: the completion of one call changes only its own job's status and
\* resultBlob and leaves every other job and every other call as they were;
\* a job's final status and result are those of its own call alone.
C12_BatchIndependence ==
  /\ [](\A id \in JobIds :
          /\ objs[id].status = "done" =>
               /\ id \in DOMAIN conv
               /\ conv[id].pc = "resolved"
               /\ objs[id].resultBlob = conv[id].result
          /\ objs[id].status = "error" =>
               /\ id \in DOMAIN conv
               /\ conv[id].pc = "rejected"
               /\ objs[id].resultBlob = Null)
  /\ [][\A k \in DOMAIN conv :
          (conv[k].pc \notin Settled /\ k \in DOMAIN conv' /\ conv'[k].pc \in Settled) =>
             \A id \in JobIds :
               IF id = k
                 THEN /\ objs'[id].file = objs[id].file
                      /\ objs'[id].targetFormat = objs[id].targetFormat
                 ELSE /\ objs'[id] = objs[id]
                      /\ id \in DOMAIN conv => conv'[id] = conv[id]]_vars

C12_Witness ==
  \E B \in batches :
    /\ Cardinality(B) = MaxJobs
    /\ \E id \in B : objs[id].status = "done"
    /\ \E id \in B : objs[id].status = "converting"

\* C13: an image source converted to image/jpeg or image/bmp is encoded from
\* a canvas on which the decoded pixels were drawn over an opaque white fill.
C13_FlattenedOverWhite ==
  \A k \in DOMAIN conv :
    ( /\ CategoryOf[conv[k].file] = "image"
      /\ conv[k].target \in {"image/jpeg", "image/bmp"}
      /\ conv[k].pc = "resolved"
      /\ conv[k].result # Null )
    => conv[k].canvas = "white"

TiffSource(file) ==
  \/ file.type = "image/tiff"
  \/ endsWith(toLowerCase(file.name), ".tiff")
  \/ endsWith(toLowerCase(file.name), ".tif")

\* C14: a call on a TIFF source with an image target other than PDF whose
\* decoded frame list is empty is rejected, with no canvas created and no bytes.
C14_EmptyTiffRejected ==
  \A k \in DOMAIN conv :
    ( /\ TiffSource(conv[k].file)
      /\ conv[k].target \in CanvasTypes
      /\ conv[k].ifds = 0 )
    => ( /\ conv[k].pc = "rejected"
         /\ conv[k].canvas = "none"
         /\ conv[k].result = Null )

C14_Witness ==
  \E k \in DOMAIN conv :
    /\ conv[k].file = File("img.tif", "")
    /\ conv[k].target = "image/jpeg"
    /\ conv[k].ifds = 0
    /\ conv[k].err = "Invalid TIFF file"

HasExt(file, exts) == \E e \in exts : endsWith(toLowerCase(file.name), e)

\* The branch the specification's priority order (section 4.3) selects.
PriorityBranch(file, target) ==
  IF HasExt(file, {".heic", ".heif"}) THEN "convertHeic"
  ELSE IF HasExt(file, {".docx"}) THEN "convertDocx"
  ELSE IF HasExt(file, {".xlsx", ".xls", ".csv", ".ods"}) THEN "convertSpreadsheet"
  ELSE IF HasExt(file, {".txt", ".html", ".rtf"}) THEN "convertTextHTML"
  ELSE IF target = "application/pdf" THEN "convertToPdf"
  ELSE IF file.type = "image/tiff" \/ HasExt(file, {".tiff", ".tif"}) THEN "convertTiff"
  ELSE "convertImageToImage"

\* C15: the branch convertFile executes is the branch selected by the priority
\* order HEIC/HEIF, DOCX, spreadsheet, text, PDF target, TIFF, generic raster.
C15_BranchFollowsPriorityOrder ==
  \A k \in DOMAIN conv :
    conv[k].branch = PriorityBranch(conv[k].file, conv[k].target)

C15_Witness ==
  \E k \in DOMAIN conv :
    /\ conv[k].file = File("photo.HEIC", "image/tiff")
    /\ conv[k].target = "application/pdf"
    /\ conv[k].branch = "convertHeic"
    /\ conv[k].pc = "resolved"

\* The decoders of each category.
DecoderBranches ==
  [ image |-> {"convertHeic", "convertTiff", "convertImageToImage", "convertToPdf"},
    document |-> {"convertDocx"},
    spreadsheet |-> {"convertSpreadsheet"},
    text |-> {"convertTextHTML"} ]

\* The call has gone past its first await.
Progressed(c) == c.pc # (IF c.branch = "convertHeic" THEN "decode" ELSE "read")

\* C16: for a file with a category, convertFile runs a decoder of that category.
C16_DecoderMatchesCategory ==
  \A k \in DOMAIN conv :
    ( /\ CategoryOf[conv[k].file] \in DOMAIN DecoderBranches
      /\ Progressed(conv[k]) )
    => conv[k].branch \in DecoderBranches[CategoryOf[conv[k].file]]

\* The target is outside the supported set of the document-type branch the
\* name selects.
UnsupportedInBranch(file, target) ==
  \/ /\ HasExt(file, {".docx"})
     /\ target \notin {"text/html", "application/pdf"}
  \/ /\ HasExt(file, {".xlsx", ".xls", ".csv", ".ods"})
     /\ target \notin {"text/csv", "text/plain", "text/html", "application/pdf"}
  \/ /\ HasExt(file, {".txt", ".html", ".rtf"})
     /\ target # "application/pdf"

\* C17: a document-type branch given a target outside its supported set never
\* resolves, returns no bytes and creates no temporary element; once settled
\* the call is rejected.
C17_UnsupportedTargetRejected ==
  \A k \in DOMAIN conv :
    UnsupportedInBranch(conv[k].file, conv[k].target) =>
      /\ conv[k].pc \in {"read", "decode", "rejected"}
      /\ conv[k].result = Null
      /\ conv[k].tempDiv = "none"

C17_Witness ==
  \E k \in DOMAIN conv :
    /\ conv[k].file = File("notes.txt", "text/plain")
    /\ conv[k].target = DocxMime
    /\ conv[k].err = "Unsupported target for Text/HTML"

\* C18: the text branch with target PDF renders every source whose lower-cased
\* name ends in .html as markup through a temporary element, and lays every
\* other source out as plain text at (10, 10) with wrap width 190.
C18_HtmlTestIsCaseInsensitive ==
  \A k \in DOMAIN conv :
    ( /\ conv[k].branch = "convertTextHTML"
      /\ conv[k].target = "application/pdf"
      /\ conv[k].page # NoPage )
    => IF HasExt(conv[k].file, {".html"})
         THEN conv[k].page.kind = "markup"
         ELSE conv[k].page = TextPage /\ conv[k].tempDiv = "none"

\* C19: a HEIC/HEIF source whose target the decoder cannot emit is resolved
\* only after a second image-to-image encode of the decoder's output.
C19_HeicReencoded ==
  \A k \in DOMAIN conv :
    ( /\ conv[k].branch = "convertHeic"
      /\ conv[k].target \notin HeicTypes
      /\ conv[k].pc = "resolved" )
    => conv[k].canvas # "none"

\* C20: the generic image-to-PDF path makes one page of format [w, h], portrait
\* when w <= h and landscape when w > h, with the image at (0, 0) sized w x h.
C20_PdfPageMatchesImage ==
  \A k \in DOMAIN conv :
    ( conv[k].branch = "convertToPdf" /\ conv[k].pc = "resolved" )
    => LET p == conv[k].page
       IN  /\ p.kind = "image"
           /\ p.format = << p.width, p.height >>
           /\ p.orientation = (IF p.width <= p.height THEN "p" ELSE "l")
           /\ p.image = << 0, 0, p.width, p.height >>

C20_Witness ==
  \E k \in DOMAIN conv :
    /\ conv[k].branch = "convertToPdf"
    /\ conv[k].pc = "resolved"
    /\ conv[k].page.kind = "image"
    /\ conv[k].page.width > conv[k].page.height
    /\ conv[k].page.orientation = "l"

\* C21: every job's targetFormat is empty or listed in the Compatibility Table
\* for the job's category, and so is the target of every call convertAllFiles
\* submits to convertFile.
C21_TargetFormatInTable ==
  /\ \A id \in JobIds :
       \/ objs[id].targetFormat = ""
       \/ InTable(objs[id].file, objs[id].targetFormat)
  /\ \A k \in DOMAIN conv \cap JobIds : InTable(conv[k].file, conv[k].target)

\* A job whose target was changed from the default was submitted, next to a
\* job that has no target.
C21_Witness ==
  /\ \E k \in DOMAIN conv \cap JobIds :
       conv[k].target # NewJob(conv[k].file).targetFormat
  /\ \E id \in JobIds : objs[id].targetFormat = ""

\* C22: no step changes the targetFormat of a job that has left 'pending', so
\* a submitted job keeps the target its call was given and downloadFile names
\* the result by that target's extension.
C22_TargetFrozenAfterPending ==
  /\ [][\A id \in JobIds :
          objs[id].status # "pending" => objs'[id].targetFormat = objs[id].targetFormat]_vars
  /\ [](\A id \in JobIds :
          objs[id].status \in {"converting", "done", "error"} =>
             /\ id \in DOMAIN conv
             /\ objs[id].targetFormat = conv[id].target
             /\ objs[id].resultBlob # Null =>
                  downloadFile(objs[id]) = Extension(conv[id].target))

\* A converted job is listed next to a pending job that holds another format
\* the converted job's file supports, while the global select has options.
C22_Witness ==
  \E id \in Range(files), id2 \in Range(files) :
    /\ objs[id].status = "done"
    /\ objs[id].resultBlob # Null
    /\ objs[id2].status = "pending"
    /\ objs[id2].targetFormat \in CompatibleValues(objs[id].file)
    /\ objs[id2].targetFormat # objs[id].targetFormat
    /\ objs[id2].targetFormat # NewJob(objs[id2].file).targetFormat
    /\ globalOptions # {}

=============================================================================
